---- MODULE Spec2Model ----
(***************************************************************************)
(* Model of diffuzers/x2image.py: the X2Image wrapper around a diffusers   *)
(* text2img / img2img pipeline pair (construction, scheduler substitution, *)
(* seeded generator selection, generation, metadata, the Streamlit app     *)
(* run) and the module-level function load_embed.                          *)
(*                                                                         *)
(* Python values are modelled as follows.  An Optional[str] is a record    *)
(* [type |-> "NoneType"] or [type |-> "str", value |-> s]; a token string  *)
(* is the sequence of its characters, so that slicing (token[:-1]) and     *)
(* concatenation are computed as Python computes them.  Slider values that *)
(* are floats are kept as integers (guidance scale in tenths, strength in  *)
(* hundredths).                                                            *)
(***************************************************************************)
EXTENDS Integers, Sequences, FiniteSets, TLC

VARIABLES
    \* ---- X2Image dataclass fields (lines 59-64) and from_pretrained result
    device, model_type, embeddings_url, token_identifier,
    \* ---- X2Image attributes set by __post_init__
    pc,                     \* "new" | "ready" | "failed"
    text2img_pipeline, img2img_pipeline, compatible_schedulers,
    \* ---- environment touched by the object
    global_rng,             \* state of torch's global generator
    tokenizer,              \* tokens of the pipeline's tokenizer, id = index - 1
    downloaded,             \* urls fetched by utils.download_file
    \* ---- what the most recent operation did
    op,                     \* name of the most recent operation
    exception,              \* exception it raised ("None" if it returned)
    log,                    \* loguru records it emitted
    ui,                     \* widget values of the app() run
    events,                 \* what it did, in order: pipeline calls, saves, displays
    \* ---- history
    seen,                   \* seed -> generator states handed to a pipeline
    last_named,             \* pipeline -> scheduler name of its last generate
    \* ---- load_embed (lines 28-54): locals and the objects it is given
    le_pc, le_arg, le_file, le_token, le_i, le_num_added, le_embeds,
    le_tokenizer, le_tokenizer0, le_weight, le_weight0, le_add_calls,
    le_log, le_returned

vars == << device, model_type, embeddings_url, token_identifier, pc,
           text2img_pipeline, img2img_pipeline, compatible_schedulers,
           global_rng, tokenizer, downloaded, op, exception, log, ui, events,
           seen, last_named,
           le_pc, le_arg, le_file, le_token, le_i, le_num_added, le_embeds,
           le_tokenizer, le_tokenizer0, le_weight, le_weight0, le_add_calls,
           le_log, le_returned >>

objVars == << device, model_type, embeddings_url, token_identifier, pc,
              text2img_pipeline, img2img_pipeline, compatible_schedulers,
              global_rng, tokenizer, downloaded, op, exception, log, ui,
              events, seen, last_named >>

embedVars == << le_pc, le_arg, le_file, le_token, le_i, le_num_added,
                le_embeds, le_tokenizer, le_tokenizer0, le_weight,
                le_weight0, le_add_calls, le_log, le_returned >>

(***************************************************************************)
(* Python values                                                           *)
(***************************************************************************)
None == [type |-> "NoneType"]

Str(s) == [type |-> "str", value |-> s]

\* len(x): TypeError on None
HasLen(v) == v.type = "str"

PyLen(v) == Len(v.value)

TokA == << "<", "a", ">" >>

TokB == << "<", "b", ">" >>

EmbeddingsUrl == << "h", "t", "t", "p" >>

(***************************************************************************)
(* Pipelines and schedulers                                                *)
(***************************************************************************)
\* text2img_pipeline.scheduler.compatibles, in the order the library lists them
Compatibles == << "DDIMScheduler", "EulerAncestralDiscreteScheduler" >>

\* the scheduler the pretrained pipeline comes with
InitialScheduler ==
    [cls |-> "PNDMScheduler", config |-> "pretrained", built |-> "from_pretrained"]

\* torch's global generator before anything seeds it
InitialGlobalRng == [seed |-> 0, offset |-> 0]

\* a generator object right after manual_seed(seed)
Seeded(seed) == [seed |-> seed, offset |-> 0]

NonePipeline == [cls |-> "NoneType"]

IsNone(p) == p.cls = "NoneType"

NoSchedulers == [n \in {} |-> n]

\* DiffusionPipeline.from_pretrained(...)
FromPretrained(dev, mtype) ==
    [cls |-> mtype, device |-> "cpu",
     dtype |-> IF dev = "cuda" THEN "float16" ELSE "float32",
     safety_checker |-> "safety_checker", scheduler |-> InitialScheduler,
     attention_slicing |-> FALSE]

\* <Img2Img pipeline class>(**components): same components, another class
Img2ImgFrom(t) ==
    IF t.cls = "StableDiffusionPipeline"
    THEN [t EXCEPT !.cls = "StableDiffusionImg2ImgPipeline"]
    ELSE IF t.cls = "AltDiffusionPipeline"
    THEN [t EXCEPT !.cls = "AltDiffusionImg2ImgPipeline"]
    ELSE NonePipeline

\* {scheduler.__name__: scheduler for scheduler in ...compatibles}
CompatibleSchedulers(t) ==
    [n \in {Compatibles[k] : k \in DOMAIN Compatibles} |-> n]

\* pipeline.__call__: records what the pipeline is given and the state its
\* generator is in on entry; the sampling then draws from that generator
PipelineCall(name, p, args, rng) ==
    [ev |-> "pipeline_call", pipeline |-> name, cls |-> p.cls,
     scheduler |-> p.scheduler, args |-> args,
     generator_state |->
        IF "generator" \in DOMAIN args /\ args.generator.ref = "fresh"
        THEN args.generator.state ELSE rng]

\* the global generator after a pipeline call that drew from it
RngAfterCall(args, rng) ==
    IF "generator" \in DOMAIN args /\ args.generator.ref = "fresh"
    THEN rng ELSE [rng EXCEPT !.offset = @ + 1]

(***************************************************************************)
(* X2Image.__post_init__ (lines 69-122)                                    *)
(***************************************************************************)
Outcome(pcv, exc, t, i, compat, rng, dl, lg, evs) ==
    [pc |-> pcv, exception |-> exc, text2img |-> t, img2img |-> i,
     compat |-> compat, rng |-> rng, downloaded |-> dl, log |-> lg,
     events |-> evs]

WarmupText2ImgArgs ==
    [prompt |-> "a photo of an astronaut riding a horse on mars",
     num_inference_steps |-> 2]

WarmupImg2ImgArgs ==
    [prompt |-> "A fantasy landscape, trending on artstation",
     image |-> "sketch-mountains-input.jpg", strength |-> 75,
     guidance_scale |-> 75, num_inference_steps |-> 2]

\* lines 105-122
MpsWarmup(t, i, compat, rng, dl, lg) ==
    LET t2 == [t EXCEPT !.attention_slicing = TRUE]
        c1 == PipelineCall("text2img", t2, WarmupText2ImgArgs, rng)
        r1 == RngAfterCall(WarmupText2ImgArgs, rng)
        i2 == [i EXCEPT !.attention_slicing = TRUE]
        c2 == PipelineCall("img2img", i2, WarmupImg2ImgArgs, r1)
        r2 == RngAfterCall(WarmupImg2ImgArgs, r1)
    IN  Outcome("ready", "None", t2, i2, compat, r2, dl, lg, << c1, c2 >>)

\* lines 95-122
PostInitEmbeddings(dev, url, tok, t, i, compat, rng, lg) ==
    IF ~HasLen(url)
    THEN Outcome("failed", "TypeError", t, i, compat, rng, {}, lg, << >>)
    ELSE IF PyLen(url) > 0 /\ ~HasLen(tok)
    THEN Outcome("failed", "TypeError", t, i, compat, rng, {}, lg, << >>)
    ELSE IF PyLen(url) > 0 /\ PyLen(tok) > 0
    THEN \* download_file(url), then self.pipeline: X2Image has no such attribute
         Outcome("failed", "AttributeError", t, i, compat, rng, {url.value}, lg,
                 << >>)
    ELSE IF dev = "mps"
    THEN MpsWarmup(t, i, compat, rng, {}, lg)
    ELSE Outcome("ready", "None", t, i, compat, rng, {}, lg, << >>)

\* lines 69-122
PostInitRun(dev, mtype, url, tok, rng) ==
    LET t0 == FromPretrained(dev, mtype)
        i0 == Img2ImgFrom(t0)
        lg == IF IsNone(i0)
              THEN << [level |-> "ERROR",
                       message |-> "Model type not supported, img2img pipeline not created"] >>
              ELSE << >>
        t1 == [t0 EXCEPT !.device = dev, !.safety_checker = "no_safety_checker"]
    IN  IF IsNone(i0)
        THEN \* line 88: None has no attribute 'to'
             Outcome("failed", "AttributeError", t1, i0, NoSchedulers, rng, {},
                     lg, << >>)
        ELSE LET i1 == [i0 EXCEPT !.device = dev,
                                  !.safety_checker = "no_safety_checker"]
             IN  PostInitEmbeddings(dev, url, tok, t1, i1,
                                    CompatibleSchedulers(t1), rng, lg)

(***************************************************************************)
(* Generation (lines 124-233).  s is the object: [text2img, img2img,       *)
(* compat, device, rng].                                                   *)
(***************************************************************************)
\* scheduler class .from_config(scheduler_config)
FromConfig(cls, config) == [cls |-> cls, config |-> config, built |-> "from_config"]

\* mutant: the new scheduler is put on both pipelines
_set_scheduler_on_both(s, pipeline_name, scheduler_name) ==
    IF pipeline_name \notin {"text2img", "img2img"}
    THEN [raised |-> "ValueError", s |-> s]
    ELSE IF scheduler_name \notin DOMAIN s.compat
    THEN [raised |-> "KeyError", s |-> s]
    ELSE LET scheduler_config ==
                 IF pipeline_name = "text2img"
                 THEN s.text2img.scheduler.config
                 ELSE s.img2img.scheduler.config
             scheduler == FromConfig(s.compat[scheduler_name], scheduler_config)
         IN  [raised |-> "None",
              s |-> [s EXCEPT !.text2img.scheduler = scheduler,
                              !.img2img.scheduler = scheduler]]

\* lines 124-137
_set_scheduler(s, pipeline_name, scheduler_name) ==
    IF pipeline_name \notin {"text2img", "img2img"}
    THEN [raised |-> "ValueError", s |-> s]
    ELSE IF scheduler_name \notin DOMAIN s.compat
    THEN [raised |-> "KeyError", s |-> s]
    ELSE LET scheduler_config ==
                 IF pipeline_name = "text2img"
                 THEN s.text2img.scheduler.config
                 ELSE s.img2img.scheduler.config
             scheduler == FromConfig(s.compat[scheduler_name], scheduler_config)
         IN  [raised |-> "None",
              s |-> IF pipeline_name = "text2img"
                    THEN [s EXCEPT !.text2img.scheduler = scheduler]
                    ELSE [s EXCEPT !.img2img.scheduler = scheduler]]

\* mutant: on mps the global generator is handed over without seeding it
SeedGeneratorMpsUnseeded(dev, seed, rng) ==
    IF dev = "mps"
    THEN [generator |-> [ref |-> "global"], rng |-> rng]
    ELSE [generator |-> [ref |-> "fresh", device |-> dev, state |-> Seeded(seed)],
          rng |-> rng]

\* lines 141-145: the generator handed to the pipeline and the global
\* generator after the seeding
SeedGenerator(dev, seed, rng) ==
    IF dev = "mps"
    THEN [generator |-> [ref |-> "global"], rng |-> Seeded(seed)]
    ELSE [generator |-> [ref |-> "fresh", device |-> dev, state |-> Seeded(seed)],
          rng |-> rng]

\* lines 143, 146
EffectiveNumImages(dev, num_images) == IF dev = "mps" THEN 1 ELSE num_images

\* lines 139-147
_pregen(s, pipeline_name, scheduler, num_images, seed) ==
    LET set == _set_scheduler(s, pipeline_name, scheduler)
        g   == SeedGenerator(s.device, seed, set.s.rng)
    IN  [s |-> [set.s EXCEPT !.rng = g.rng], generator |-> g.generator,
         num_images |-> EffectiveNumImages(s.device, num_images)]

\* json.dumps(metadata): the dictionary as JSON text
JsonDumps(metadata) == [json |-> metadata]

\* lines 149-161: the save_images call and the PngInfo returned
_postgen(metadata, output_images, pipeline_name) ==
    LET text == JsonDumps(metadata)
    IN  [save |-> [ev |-> "save_images", images |-> output_images,
                   module |-> pipeline_name, metadata |-> text],
         images |-> output_images,
         metadata |-> [key |-> pipeline_name, text |-> text]]

\* the .images of one pipeline call
OutputImages(call) ==
    [pipeline |-> call.pipeline, count |-> call.args.num_images_per_prompt,
     sampled_from |-> call.generator_state, scheduler |-> call.scheduler.cls]

\* mutant: width and height taken from the wrong ends of image_size
Text2ImgArgsSwapped(a, num_images, generator) ==
    [prompt |-> a.prompt, negative_prompt |-> a.negative_prompt,
     width |-> a.image_size[1], height |-> a.image_size[2],
     num_inference_steps |-> a.steps, guidance_scale |-> a.guidance_scale,
     num_images_per_prompt |-> num_images, generator |-> generator]

\* lines 172-181: keyword arguments of self.text2img_pipeline(...)
Text2ImgArgs(a, num_images, generator) ==
    [prompt |-> a.prompt, negative_prompt |-> a.negative_prompt,
     width |-> a.image_size[2], height |-> a.image_size[1],
     num_inference_steps |-> a.steps, guidance_scale |-> a.guidance_scale,
     num_images_per_prompt |-> num_images, generator |-> generator]

\* lines 182-191
Text2ImgMetadata(a, num_images) ==
    [prompt |-> a.prompt, negative_prompt |-> a.negative_prompt,
     scheduler |-> a.scheduler, image_size |-> a.image_size,
     num_images |-> num_images, guidance_scale |-> a.guidance_scale,
     steps |-> a.steps, seed |-> a.seed]

\* mutant: the pipeline is called on the object as it was before _pregen
CallBeforePregen(name, s0, pre, args) ==
    PipelineCall(name, IF name = "text2img" THEN s0.text2img ELSE s0.img2img,
                 args, pre.s.rng)

\* the pipeline call of a generate method, made on the object as _pregen left it
CallAfterPregen(name, s0, pre, args) ==
    PipelineCall(name, IF name = "text2img" THEN pre.s.text2img ELSE pre.s.img2img,
                 args, pre.s.rng)

\* lines 163-198
text2img_generate(s, a) ==
    LET pre  == _pregen(s, "text2img", a.scheduler, a.num_images, a.seed)
        args == Text2ImgArgs(a, pre.num_images, pre.generator)
        call == CallAfterPregen("text2img", s, pre, args)
        post == _postgen(Text2ImgMetadata(a, pre.num_images), OutputImages(call),
                         "text2img")
    IN  [s |-> [pre.s EXCEPT !.rng = RngAfterCall(args, pre.s.rng)],
         events |-> << [ev |-> "generate", method |-> "text2img_generate",
                        pipeline |-> "text2img", a |-> a],
                       call, post.save,
                       [ev |-> "return", method |-> "text2img_generate",
                        images |-> post.images, metadata |-> post.metadata] >>,
         images |-> post.images, metadata |-> post.metadata]

\* lines 209-218: keyword arguments of self.img2img_pipeline(...)
Img2ImgArgs(a, num_images, generator) ==
    [prompt |-> a.prompt, image |-> a.image, strength |-> a.strength,
     negative_prompt |-> a.negative_prompt, num_inference_steps |-> a.steps,
     guidance_scale |-> a.guidance_scale, num_images_per_prompt |-> num_images,
     generator |-> generator]

\* lines 219-227
Img2ImgMetadata(a, num_images) ==
    [prompt |-> a.prompt, negative_prompt |-> a.negative_prompt,
     scheduler |-> a.scheduler, num_images |-> num_images,
     guidance_scale |-> a.guidance_scale, steps |-> a.steps, seed |-> a.seed]

\* lines 200-233
img2img_generate(s, a) ==
    LET pre  == _pregen(s, "img2img", a.scheduler, a.num_images, a.seed)
        args == Img2ImgArgs(a, pre.num_images, pre.generator)
        call == CallAfterPregen("img2img", s, pre, args)
        post == _postgen(Img2ImgMetadata(a, pre.num_images), OutputImages(call),
                         "img2img")
    IN  [s |-> [pre.s EXCEPT !.rng = RngAfterCall(args, pre.s.rng)],
         events |-> << [ev |-> "generate", method |-> "img2img_generate",
                        pipeline |-> "img2img", a |-> a],
                       call, post.save,
                       [ev |-> "return", method |-> "img2img_generate",
                        images |-> post.images, metadata |-> post.metadata] >>,
         images |-> post.images, metadata |-> post.metadata]

(***************************************************************************)
(* X2Image.app (lines 235-315): one Streamlit script run                   *)
(***************************************************************************)
SizeDefault == 512

NumImagesDefault == 1

SeedMin == 1

SeedDefault == 42

StepsDefault == 50

\* 7.5, in tenths
GuidanceDefault == 75

\* 0.8, in hundredths
StrengthDefault == 80

\* settings of the prompt areas and the sliders in the runs explored: the
\* defaults, and two settings in which every widget is moved (sizes in steps
\* of 128 from 128, guidance 1.0 and 40.0, strength 0.5 and 1.0)
WidgetSettings ==
    { [prompt |-> "Blue elephant", negative_prompt |-> "",
       image_height |-> SizeDefault, image_width |-> SizeDefault,
       guidance_scale |-> GuidanceDefault, strength |-> StrengthDefault,
       num_images |-> NumImagesDefault, steps |-> StepsDefault],
      [prompt |-> "Red fox", negative_prompt |-> "blurry",
       image_height |-> 128, image_width |-> 256,
       guidance_scale |-> 10, strength |-> 50,
       num_images |-> 2, steps |-> 1],
      [prompt |-> "Green parrot", negative_prompt |-> "low quality",
       image_height |-> 256, image_width |-> 128,
       guidance_scale |-> 400, strength |-> 100,
       num_images |-> 30, steps |-> 150] }

Seeds == {SeedMin, SeedDefault}

Uploads == {None, [type |-> "UploadedFile", name |-> "upload.png"]}

\* Image.open(input_image)
ImageOpen(file) == [type |-> "Image", opened_from |-> file.name]

RECURSIVE Without(_, _)
\* the list with its elements equal to x removed
Without(list, x) ==
    IF list = << >> THEN << >>
    ELSE IF Head(list) = x THEN Without(Tail(list), x)
    ELSE << Head(list) >> \o Without(Tail(list), x)

\* list(self.compatible_schedulers.keys()), in insertion order
Keys(compat) == SelectSeq(Compatibles, LAMBDA n : n \in DOMAIN compat)

\* lines 236-240
AvailableSchedulers(compat) ==
    LET keys == Keys(compat)
        e    == "EulerAncestralDiscreteScheduler"
    IN  IF \E k \in DOMAIN keys : keys[k] = e
        THEN << e >> \o Without(keys, e)
        ELSE keys

\* lines 246-267: the pipeline the run selects
PipelineName(w) == IF w.input_image.type # "NoneType" THEN "img2img" ELSE "text2img"

\* lines 293-302
Text2ImgRequest(w) ==
    [prompt |-> w.prompt, negative_prompt |-> w.negative_prompt,
     scheduler |-> w.scheduler,
     image_size |-> << w.image_height, w.image_width >>,
     num_images |-> w.num_images, guidance_scale |-> w.guidance_scale,
     steps |-> w.steps, seed |-> w.seed]

\* lines 304-314
Img2ImgRequest(w) ==
    [prompt |-> w.prompt, image |-> ImageOpen(w.input_image),
     strength |-> w.strength, negative_prompt |-> w.negative_prompt,
     scheduler |-> w.scheduler, num_images |-> w.num_images,
     guidance_scale |-> w.guidance_scale, steps |-> w.steps, seed |-> w.seed]

\* mutant: the images are generated and saved but never displayed
SubmitWithoutDisplay(s, w) ==
    LET r == IF PipelineName(w) = "text2img"
             THEN text2img_generate(s, Text2ImgRequest(w))
             ELSE img2img_generate(s, Img2ImgRequest(w))
    IN  [s |-> r.s, events |-> r.events]

\* lines 290-315
Submit(s, w) ==
    LET r == IF PipelineName(w) = "text2img"
             THEN text2img_generate(s, Text2ImgRequest(w))
             ELSE img2img_generate(s, Img2ImgRequest(w))
    IN  [s |-> r.s,
         events |-> r.events \o
                    << [ev |-> "display", images |-> r.images,
                        metadata |-> r.metadata] >>]

\* lines 235-315: w holds the widget values of the run
AppRun(s, w) ==
    LET preview == IF PipelineName(w) = "img2img"
                   THEN << [ev |-> "preview", image |-> ImageOpen(w.input_image)] >>
                   ELSE << >>
    IN  IF w.submit
        THEN LET r == Submit(s, w)
             IN  [w |-> w, s |-> r.s, events |-> preview \o r.events]
        ELSE [w |-> w, s |-> s, events |-> preview]

(***************************************************************************)
(* The object as a state machine                                           *)
(***************************************************************************)
Devices == {"cuda", "cpu", "mps"}

ModelTypes == {"StableDiffusionPipeline", "AltDiffusionPipeline",
               "DiffusionPipeline"}

\* pipeline names _set_scheduler does not know
OtherPipelineNames == {"inpaint"}

BaseTokenizer == << << "a" >>, << "b" >> >>

NoUi == [submit |-> FALSE]

Self ==
    [text2img |-> text2img_pipeline, img2img |-> img2img_pipeline,
     compat |-> compatible_schedulers, device |-> device, rng |-> global_rng]

Generates(evs) == SelectSeq(evs, LAMBDA e : e.ev = "generate")

PipelineCalls(evs) == SelectSeq(evs, LAMBDA e : e.ev = "pipeline_call")

\* generator states handed to a pipeline for this seed by the generate calls
SeenAfter(evs, seed) ==
    seen[seed] \cup
    { PipelineCalls(evs)[k].generator_state : k \in
        { j \in DOMAIN PipelineCalls(evs) :
            /\ Generates(evs) # << >>
            /\ Generates(evs)[1].a.seed = seed } }

LastNamedAfter(evs, p) ==
    IF Generates(evs) # << >> /\ Generates(evs)[1].pipeline = p
    THEN Generates(evs)[1].a.scheduler
    ELSE last_named[p]

\* everything but the constructor's arguments, before construction
Unconstructed ==
    /\ pc = "new"
    /\ text2img_pipeline = NonePipeline
    /\ img2img_pipeline = NonePipeline
    /\ compatible_schedulers = NoSchedulers
    /\ global_rng = InitialGlobalRng
    /\ tokenizer = BaseTokenizer
    /\ downloaded = {}
    /\ op = "None"
    /\ exception = "None"
    /\ log = << >>
    /\ ui = NoUi
    /\ events = << >>
    /\ seen = [s \in Seeds |-> {}]
    /\ last_named = [p \in {"text2img", "img2img"} |-> "None"]

\* load_embed is not running
EmbedIdle ==
    /\ le_pc = "idle"
    /\ le_arg = None
    /\ le_file = [format |-> "None"]
    /\ le_token = << >>
    /\ le_i = 0
    /\ le_num_added = 0
    /\ le_embeds = [kind |-> "None", n |-> 0]
    /\ le_tokenizer = << >>
    /\ le_tokenizer0 = << >>
    /\ le_weight = << >>
    /\ le_weight0 = << >>
    /\ le_add_calls = << >>
    /\ le_log = << >>
    /\ le_returned = None

\* an application started without an embedding (both strings empty)
Init ==
    /\ device \in {"cuda", "mps"}
    /\ model_type \in ModelTypes
    /\ embeddings_url = Str(<< >>)
    /\ token_identifier = Str(<< >>)
    /\ Unconstructed
    /\ EmbedIdle

\* any constructor arguments, the dataclass defaults (None) included
InitAnyArguments ==
    /\ device \in Devices
    /\ model_type \in ModelTypes
    /\ embeddings_url \in {None, Str(<< >>), Str(EmbeddingsUrl)}
    /\ token_identifier \in {None, Str(<< >>), Str(TokA)}
    /\ Unconstructed
    /\ EmbedIdle

\* X2Image(...): the dataclass constructor runs __post_init__
PostInit ==
    /\ pc = "new"
    /\ LET r == PostInitRun(device, model_type, embeddings_url, token_identifier,
                            global_rng)
       IN  /\ pc' = r.pc
           /\ exception' = r.exception
           /\ text2img_pipeline' = r.text2img
           /\ img2img_pipeline' = r.img2img
           /\ compatible_schedulers' = r.compat
           /\ global_rng' = r.rng
           /\ downloaded' = r.downloaded
           /\ log' = r.log
           /\ events' = r.events
    /\ op' = "__post_init__"
    /\ UNCHANGED << device, model_type, embeddings_url, token_identifier,
                    tokenizer, ui, seen, last_named >>
    /\ UNCHANGED embedVars

\* one run of app() on the constructed object
App ==
    /\ pc = "ready"
    /\ \E input_image \in Uploads, set \in WidgetSettings,
          k \in DOMAIN AvailableSchedulers(compatible_schedulers),
          seed \in Seeds, submit \in BOOLEAN :
         \E r \in { AppRun(Self,
                      [input_image |-> input_image, prompt |-> set.prompt,
                       negative_prompt |-> set.negative_prompt,
                       scheduler |-> AvailableSchedulers(compatible_schedulers)[k],
                       image_height |-> set.image_height,
                       image_width |-> set.image_width,
                       guidance_scale |-> set.guidance_scale,
                       strength |-> set.strength, num_images |-> set.num_images,
                       steps |-> set.steps, seed |-> seed, submit |-> submit]) } :
             /\ ui' = r.w
             /\ events' = r.events
             /\ text2img_pipeline' = r.s.text2img
             /\ img2img_pipeline' = r.s.img2img
             /\ compatible_schedulers' = r.s.compat
             /\ global_rng' = r.s.rng
             /\ seen' = [s \in Seeds |-> SeenAfter(r.events, s)]
             /\ last_named' = [p \in {"text2img", "img2img"} |->
                                 LastNamedAfter(r.events, p)]
    /\ op' = "app"
    /\ exception' = "None"
    /\ log' = << >>
    /\ UNCHANGED << device, model_type, embeddings_url, token_identifier, pc,
                    tokenizer, downloaded >>
    /\ UNCHANGED embedVars

\* _set_scheduler called with a pipeline name it does not know (line 130);
\* with the names it knows it is called by _pregen only (line 140)
SetSchedulerOther ==
    /\ pc = "ready"
    /\ \E pipeline_name \in OtherPipelineNames,
          k \in DOMAIN AvailableSchedulers(compatible_schedulers) :
         LET r == _set_scheduler(Self, pipeline_name,
                                 AvailableSchedulers(compatible_schedulers)[k])
         IN  /\ exception' = r.raised
             /\ text2img_pipeline' = r.s.text2img
             /\ img2img_pipeline' = r.s.img2img
             /\ compatible_schedulers' = r.s.compat
             /\ global_rng' = r.s.rng
    /\ op' = "_set_scheduler"
    /\ ui' = NoUi
    /\ events' = << >>
    /\ log' = << >>
    /\ UNCHANGED << device, model_type, embeddings_url, token_identifier, pc,
                    tokenizer, downloaded, seen, last_named >>
    /\ UNCHANGED embedVars

Next == PostInit \/ App \/ SetSchedulerOther

Spec == Init /\ [][Next]_vars

\* construction alone, from any constructor arguments
NextConstruct == PostInit

ConstructSpec == InitAnyArguments /\ [][NextConstruct]_vars

(***************************************************************************)
(* load_embed (lines 28-54), one action per straight-line stretch of it    *)
(***************************************************************************)
\* longest run of retry candidates the initial vocabulary may already hold
MaxChain == 2

\* the loop counter never gets here (LoadEmbedResult states it)
RetryCap == MaxChain + 3

RECURSIVE Decimal(_)
\* str(i) for i >= 0, as its characters
Decimal(i) ==
    LET digit == << "0", "1", "2", "3", "4", "5", "6", "7", "8", "9" >>
    IN  IF i < 10 THEN << digit[i + 1] >>
        ELSE Decimal(i \div 10) \o << digit[(i % 10) + 1] >>

\* token[:-1]
DropLast(token) ==
    IF Len(token) = 0 THEN << >> ELSE SubSeq(token, 1, Len(token) - 1)

\* mutant: the suffix is appended without dropping the last character
RetryTokenKeepsLast(token, i) == token \o << "-" >> \o Decimal(i) \o << ">" >>

\* line 43: f"{token[:-1]}-{i}>"
RetryToken(token, i) == DropLast(token) \o << "-" >> \o Decimal(i) \o << ">" >>

\* mutant: the loop is never entered
NeverRetry(num_added_tokens) == FALSE

\* line 41: the loop condition
ShouldRetry(num_added_tokens) == num_added_tokens = 0

\* tokenizer.add_tokens(token): [num_added, tokenizer]; a token already in
\* the tokenizer is not added again
AddTokens(toks, token) ==
    IF \E k \in DOMAIN toks : toks[k] = token
    THEN [num_added |-> 0, tokenizer |-> toks]
    ELSE [num_added |-> 1, tokenizer |-> Append(toks, token)]

\* tokenizer.convert_tokens_to_ids(token), for a token of the tokenizer
ConvertTokensToIds(toks, token) ==
    (CHOOSE k \in DOMAIN toks : toks[k] = token) - 1

\* a row of the embedding matrix nobody has written
InitRow(id) == [kind |-> "init", n |-> id]

\* text_encoder.resize_token_embeddings(n)
ResizeTokenEmbeddings(weight, n) ==
    [k \in 1..n |-> IF k <= Len(weight) THEN weight[k] ELSE InitRow(k - 1)]

\* lines 48-53: the embedding matrix after the assignment
AssignEmbeds(weight, toks, token, embeds) ==
    LET resized  == ResizeTokenEmbeddings(weight, Len(toks))
        token_id == ConvertTokensToIds(toks, token)
    IN  [resized EXCEPT ![token_id + 1] = embeds]

\* torch.load(path): a textual-inversion file is either a dictionary
\* {trained_token: embeds} or a dictionary with more than two keys, one of
\* them "string_to_param"
ConceptFile(trained) ==
    [len |-> 1, first_key |-> trained, embeds |-> [kind |-> "learned", n |-> 1]]

StringToParamFile ==
    [len |-> 5, first_key |-> << "string_to_token" >>,
     embeds |-> [kind |-> "learned", n |-> 2]]

RECURSIVE RetryChain(_, _)
\* the k-th token load_embed tries for a requested token (k = 0: the token)
RetryChain(token, k) ==
    IF k = 0 THEN token ELSE RetryToken(RetryChain(token, k - 1), k)

\* tokens that may be in the vocabulary before the call, besides the base ones
Extras == [k \in 1..(MaxChain + 2) |->
             IF k <= MaxChain + 1 THEN RetryChain(TokA, k - 1) ELSE TokB]

\* the vocabularies explored: the base tokens, then any of the extras
Vocabularies ==
    { BaseTokenizer \o SelectSeq(Extras, LAMBDA x : x \in S) :
        S \in SUBSET { Extras[k] : k \in DOMAIN Extras } }

InitEmbed ==
    /\ device = "cpu"
    /\ model_type = "StableDiffusionPipeline"
    /\ embeddings_url = Str(<< >>)
    /\ token_identifier = Str(<< >>)
    /\ Unconstructed
    /\ le_pc = "called"
    /\ le_arg \in {None, Str(TokA), Str(TokB)}
    /\ le_file \in {ConceptFile(TokA), ConceptFile(TokB), StringToParamFile}
    /\ le_tokenizer \in Vocabularies
    /\ le_tokenizer0 = le_tokenizer
    /\ le_weight = [k \in 1..Len(le_tokenizer) |-> InitRow(k - 1)]
    /\ le_weight0 = le_weight
    /\ le_token = << >>
    /\ le_i = 0
    /\ le_num_added = 0
    /\ le_embeds = [kind |-> "None", n |-> 0]
    /\ le_add_calls = << >>
    /\ le_log = << >>
    /\ le_returned = None

\* lines 29-40: up to the first add_tokens and i = 1
LoadEmbedStart ==
    /\ le_pc = "called"
    /\ IF le_arg.type = "NoneType" /\ le_file.len > 2
       THEN \* line 38 reads trained_token, which line 34 never bound
            /\ le_pc' = "raised"
            /\ UNCHANGED << le_token, le_i, le_num_added, le_embeds,
                            le_tokenizer, le_add_calls >>
       ELSE LET token == IF le_arg.type # "NoneType" THEN le_arg.value
                         ELSE le_file.first_key
                added == AddTokens(le_tokenizer, token)
            IN  /\ le_pc' = "loop"
                /\ le_embeds' = le_file.embeds
                /\ le_token' = token
                /\ le_num_added' = added.num_added
                /\ le_tokenizer' = added.tokenizer
                /\ le_add_calls' = << token >>
                /\ le_i' = 1
    /\ UNCHANGED << le_arg, le_file, le_tokenizer0, le_weight, le_weight0,
                    le_log, le_returned >>
    /\ UNCHANGED objVars

\* lines 41-46: one iteration of the while loop
LoadEmbedRetry ==
    /\ le_pc = "loop"
    /\ ShouldRetry(le_num_added)
    /\ le_i < RetryCap
    /\ LET token == RetryToken(le_token, le_i)
           added == AddTokens(le_tokenizer, token)
       IN  /\ le_log' = le_log \o
                  << [level |-> "WARNING", token |-> le_token],
                     [level |-> "INFO", token |-> token] >>
           /\ le_token' = token
           /\ le_num_added' = added.num_added
           /\ le_tokenizer' = added.tokenizer
           /\ le_add_calls' = Append(le_add_calls, token)
           /\ le_i' = le_i + 1
    /\ UNCHANGED << le_pc, le_arg, le_file, le_embeds, le_tokenizer0,
                    le_weight, le_weight0, le_returned >>
    /\ UNCHANGED objVars

\* lines 48-54: after the loop
LoadEmbedFinish ==
    /\ le_pc = "loop"
    /\ ~ShouldRetry(le_num_added)
    /\ le_weight' = AssignEmbeds(le_weight, le_tokenizer, le_token, le_embeds)
    /\ le_returned' = Str(le_token)
    /\ le_pc' = "done"
    /\ UNCHANGED << le_arg, le_file, le_token, le_i, le_num_added, le_embeds,
                    le_tokenizer, le_tokenizer0, le_weight0, le_add_calls,
                    le_log >>
    /\ UNCHANGED objVars

NextEmbed == LoadEmbedStart \/ LoadEmbedRetry \/ LoadEmbedFinish

\* a call of load_embed runs on, statement after statement, until it returns
EmbedSpec == InitEmbed /\ [][NextEmbed]_vars /\ WF_vars(NextEmbed)

(***************************************************************************)
(* Properties                                                              *)
(***************************************************************************)
InTokenizer(toks, token) == \E k \in DOMAIN toks : toks[k] = token

Events(kind) == SelectSeq(events, LAMBDA e : e.ev = kind)

SupportedModel == model_type \in {"StableDiffusionPipeline", "AltDiffusionPipeline"}

\* C1: in every generate call the scheduler is substituted before the pipeline
\* is invoked: the pipeline called is the targeted one, and the scheduler it
\* has at the moment of the call is an instance built (from_config) from
\* compatible_schedulers[name] for the name given to that same call,
\* whatever calls preceded it.
SchedulerSetBeforeCall ==
    op = "app" =>
        \A k \in DOMAIN events :
            events[k].ev = "pipeline_call" =>
                LET g == Generates(events)[1]
                IN  /\ events[k].pipeline = g.pipeline
                    /\ events[k].scheduler.built = "from_config"
                    /\ events[k].scheduler.cls =
                           compatible_schedulers[g.a.scheduler]

\* C1 witness: text2img is called with DDIM after an earlier generate call
\* left the other scheduler on img2img.
SchedulerSetBeforeCallWitness ==
    /\ op = "app"
    /\ PipelineCalls(events) # << >>
    /\ PipelineCalls(events)[1].pipeline = "text2img"
    /\ PipelineCalls(events)[1].scheduler.cls = "DDIMScheduler"
    /\ img2img_pipeline.scheduler.cls = "EulerAncestralDiscreteScheduler"

\* C4: a request issued from app() reaches the pipeline unchanged: text2img
\* gets prompt, negative prompt, guidance scale, steps, height = the image
\* height slider, width = the image width slider and a generator seeded with
\* the seed; img2img gets prompt, image, strength, negative prompt, guidance
\* scale and steps.
RequestPassedThrough ==
    (op = "app" /\ ui.submit) =>
        /\ Len(PipelineCalls(events)) = 1
        /\ LET c == PipelineCalls(events)[1]
           IN  /\ c.args.prompt = ui.prompt
               /\ c.args.negative_prompt = ui.negative_prompt
               /\ c.args.guidance_scale = ui.guidance_scale
               /\ c.args.num_inference_steps = ui.steps
               /\ c.generator_state = [seed |-> ui.seed, offset |-> 0]
               /\ IF ui.input_image.type = "NoneType"
                  THEN /\ c.pipeline = "text2img"
                       /\ c.args.height = ui.image_height
                       /\ c.args.width = ui.image_width
                  ELSE /\ c.pipeline = "img2img"
                       /\ c.args.image = ImageOpen(ui.input_image)
                       /\ c.args.strength = ui.strength

\* C4 witness: a submitted text2img request whose height and width differ.
RequestPassedThroughWitness ==
    /\ op = "app"
    /\ ui.submit
    /\ ui.input_image.type = "NoneType"
    /\ ui.image_height < ui.image_width
    /\ PipelineCalls(events) # << >>

\* C5 (as claimed): the metadata stored under the pipeline's name records
\* every generation parameter the pipeline call received (all but the image
\* and the generator object, the generator by its seed), with the value it
\* received.
MetadataComplete ==
    (op = "app" /\ ui.submit) =>
        LET c  == PipelineCalls(events)[1]
            r  == Events("return")[1]
            md == r.metadata.text.json
        IN  /\ r.metadata.key = c.pipeline
            /\ md.prompt = c.args.prompt
            /\ md.negative_prompt = c.args.negative_prompt
            /\ md.guidance_scale = c.args.guidance_scale
            /\ md.steps = c.args.num_inference_steps
            /\ md.num_images = c.args.num_images_per_prompt
            /\ md.seed = c.generator_state.seed
            /\ md.scheduler = c.scheduler.cls
            /\ "height" \in DOMAIN c.args =>
                   /\ "image_size" \in DOMAIN md
                   /\ md.image_size = << c.args.height, c.args.width >>
            /\ "strength" \in DOMAIN c.args =>
                   /\ "strength" \in DOMAIN md
                   /\ md.strength = c.args.strength

\* C6: every generate call hands the pipeline a generator just seeded with
\* that call's seed, on every device, so all generate calls with one seed
\* start from one generator state, whatever calls came in between.
SeedDeterminesGenerator ==
    /\ op = "app" =>
           \A k \in DOMAIN events :
               events[k].ev = "pipeline_call" =>
                   events[k].generator_state =
                       [seed |-> Generates(events)[1].a.seed, offset |-> 0]
    /\ \A s \in Seeds : Cardinality(seen[s]) <= 1

\* C6 witness: on mps (the global generator), a generate call with a seed
\* that an earlier call used, after a call with another seed.
SeedDeterminesGeneratorWitness ==
    /\ device = "mps"
    /\ op = "app"
    /\ PipelineCalls(events) # << >>
    /\ \A s \in Seeds : seen[s] # {}
    /\ global_rng.seed = SeedDefault

\* C7, the state part: a run with the button clicked makes exactly one
\* generate call (img2img iff an image was uploaded), one pipeline call and
\* one save, and then calls display exactly once, last, with the images and
\* metadata the generate call returned; a run without the click generates,
\* saves and displays nothing.
RunDoesOneRequest ==
    op = "app" =>
        IF ui.submit
        THEN /\ Len(Generates(events)) = 1
             /\ Generates(events)[1].method =
                    IF ui.input_image.type # "NoneType"
                    THEN "img2img_generate" ELSE "text2img_generate"
             /\ Len(PipelineCalls(events)) = 1
             /\ Len(Events("save_images")) = 1
             /\ Len(Events("return")) = 1
             /\ Len(Events("display")) = 1
             /\ events[Len(events)].ev = "display"
             /\ events[Len(events) - 1].ev = "return"
             /\ events[Len(events)].images = events[Len(events) - 1].images
             /\ events[Len(events)].metadata = events[Len(events) - 1].metadata
        ELSE /\ Generates(events) = << >>
             /\ PipelineCalls(events) = << >>
             /\ Events("save_images") = << >>
             /\ Events("display") = << >>

\* C7, the step part: a run without the click changes no scheduler, no
\* pipeline and no generator.
UnclickedRunChangesNothing ==
    (op' = "app" /\ ~ui'.submit) =>
        /\ text2img_pipeline' = text2img_pipeline
        /\ img2img_pipeline' = img2img_pipeline
        /\ global_rng' = global_rng
        /\ seen' = seen
        /\ last_named' = last_named

SetSchedulerFrame ==
    /\ pc = "ready" => compatible_schedulers' = compatible_schedulers
    /\ op' = "_set_scheduler" =>
           /\ exception' = "ValueError"
           /\ text2img_pipeline'.scheduler = text2img_pipeline.scheduler
           /\ img2img_pipeline'.scheduler = img2img_pipeline.scheduler
    /\ (op' = "app" /\ Generates(events') # << >>) =>
           IF Generates(events')[1].pipeline = "text2img"
           THEN img2img_pipeline'.scheduler = img2img_pipeline.scheduler
           ELSE text2img_pipeline'.scheduler = text2img_pipeline.scheduler

\* the scheduler a pipeline must have, given the last name a generate call
\* on it gave
SchedulerNamed(name) ==
    IF name = "None" THEN InitialScheduler
    ELSE [cls |-> name, config |-> InitialScheduler.config, built |-> "from_config"]

\* C8, the state part: each pipeline's scheduler is the one named by the
\* most recent generate call on that pipeline, or its initial scheduler.
SchedulerIsLastNamed ==
    pc = "ready" =>
        /\ text2img_pipeline.scheduler = SchedulerNamed(last_named["text2img"])
        /\ img2img_pipeline.scheduler = SchedulerNamed(last_named["img2img"])

\* C8: _set_scheduler changes at most the scheduler of the pipeline it names.
SetSchedulerChangesOnlyItsPipeline ==
    [][SetSchedulerFrame]_vars /\ []SchedulerIsLastNamed

\* C8 witness: an unknown pipeline name was refused after generate calls
\* that named different schedulers on the two pipelines.
SetSchedulerChangesOnlyItsPipelineWitness ==
    /\ op = "_set_scheduler"
    /\ exception = "ValueError"
    /\ last_named["text2img"] = "DDIMScheduler"
    /\ last_named["img2img"] = "EulerAncestralDiscreteScheduler"

\* C3 (as claimed): with a model that is neither a StableDiffusionPipeline
\* nor an AltDiffusionPipeline, construction logs the error, sets
\* img2img_pipeline to None, touches it no further and completes with a
\* usable text2img pipeline.
UnsupportedModelConstructs ==
    (pc # "new" /\ ~SupportedModel) =>
        /\ \E k \in DOMAIN log : log[k].level = "ERROR"
        /\ IsNone(img2img_pipeline)
        /\ exception = "None"
        /\ pc = "ready"
        /\ text2img_pipeline.device = device

\* C10 (as claimed): with both embeddings_url and token_identifier
\* non-empty the file is downloaded and loaded into the tokenizer under the
\* token identifier; with either empty or None nothing is downloaded, the
\* tokenizer is untouched and construction completes without error.
OptionalEmbeddingHandled ==
    (pc # "new" /\ SupportedModel) =>
        IF /\ embeddings_url.type = "str" /\ Len(embeddings_url.value) > 0
           /\ token_identifier.type = "str" /\ Len(token_identifier.value) > 0
        THEN /\ embeddings_url.value \in downloaded
             /\ InTokenizer(tokenizer, token_identifier.value)
             /\ exception = "None"
        ELSE /\ downloaded = {}
             /\ tokenizer = BaseTokenizer
             /\ exception = "None"
             /\ pc = "ready"

\* the token load_embed was asked to add (line 38)
Requested == le_add_calls[1]

\* C2 (as claimed): a duplicate token is not retried: no add_tokens attempt
\* under another name, and no token other than the requested one is added
\* or returned.
DuplicateTokenNotRetried ==
    le_pc = "done" =>
        /\ le_add_calls = << Requested >>
        /\ le_returned.value = Requested
        /\ \A k \in DOMAIN le_tokenizer :
               InTokenizer(le_tokenizer0, le_tokenizer[k])
                   \/ le_tokenizer[k] = Requested

\* C2 (amended): a duplicate token is warned about and retried under derived
\* names until one is added: the token returned differs from the requested
\* one exactly when the requested one was already in the tokenizer, every
\* failed attempt is logged as a warning followed by the next attempt, and a
\* token that was absent is added at the first attempt, with no retry.
DuplicateTokenRetried ==
    le_pc = "done" =>
        /\ InTokenizer(le_tokenizer0, Requested) <=>
               le_returned.value # Requested
        /\ InTokenizer(le_tokenizer0, Requested) <=> Len(le_add_calls) > 1
        /\ Len(le_log) = 2 * (Len(le_add_calls) - 1)
        /\ \A k \in 1..(Len(le_add_calls) - 1) :
               /\ le_log[2 * k - 1] =
                      [level |-> "WARNING", token |-> le_add_calls[k]]
               /\ le_log[2 * k] =
                      [level |-> "INFO", token |-> le_add_calls[k + 1]]
               /\ InTokenizer(le_tokenizer0, le_add_calls[k])
        /\ le_returned.value = le_add_calls[Len(le_add_calls)]

\* C2 witness: the requested token and its first retry name were both
\* taken, and the call returned.
DuplicateTokenRetriedWitness ==
    /\ le_pc = "done"
    /\ InTokenizer(le_tokenizer0, Requested)
    /\ Len(le_add_calls) >= 3

\* C9, the state part: the retry candidates are pairwise distinct, each the
\* previous one with its last character replaced by "-i>", the loop counter
\* stays below the cap of the model, and on return exactly one token has
\* been added, it is the returned one (absent before, present after), and
\* the embedding is written at its id and at no other id.
LoadEmbedResult ==
    /\ \A j, k \in DOMAIN le_add_calls :
           j < k => le_add_calls[j] # le_add_calls[k]
    /\ \A k \in DOMAIN le_add_calls :
           k > 1 =>
               le_add_calls[k] =
                   SubSeq(le_add_calls[k - 1], 1, Len(le_add_calls[k - 1]) - 1)
                       \o << "-" >> \o Decimal(k - 1) \o << ">" >>
    /\ le_pc = "loop" => le_i < RetryCap
    /\ le_pc = "done" =>
           /\ Len(le_tokenizer) = Len(le_tokenizer0) + 1
           /\ SubSeq(le_tokenizer, 1, Len(le_tokenizer0)) = le_tokenizer0
           /\ le_tokenizer[Len(le_tokenizer)] = le_returned.value
           /\ ~InTokenizer(le_tokenizer0, le_returned.value)
           /\ Len(le_weight) = Len(le_tokenizer)
           /\ le_weight[Len(le_weight)] = le_file.embeds
           /\ \A k \in DOMAIN le_weight0 : le_weight[k] = le_weight0[k]

\* C9: with a non-None token load_embed always terminates, its retry
\* candidates are pairwise distinct, and it adds exactly the token it
\* returns and writes the embedding at that token's id only.
LoadEmbedTerminates ==
    /\ []LoadEmbedResult
    /\ (le_pc = "called" /\ le_arg.type = "str") ~> (le_pc = "done")

\* C9 witness: a call that had to go through every retry the vocabulary
\* allows before it returned.
LoadEmbedTerminatesWitness ==
    /\ le_pc = "done"
    /\ le_arg.type = "str"
    /\ Len(le_add_calls) = MaxChain + 2

====
